---- MODULE Spec2Model ----
(***************************************************************************)
(* The dual repository (infrastructure/dual): two store adapters behind    *)
(* two circuit breakers, a retry policy, a parallel health probe and a     *)
(* shared pool of four worker threads.                                     *)
(*                                                                         *)
(* One caller thread runs save / eliminar; the worker threads of the       *)
(* shared pool run the probes and the parallel store operations and finish *)
(* them at any moment.  Time is a clock in seconds that advances, between   *)
(* two writes, in steps of the breakers' recovery timeout.  The timeout    *)
(* branch of the parallel path is modelled for Python >= 3.11, where the   *)
(* TimeoutError raised by as_completed is the builtin TimeoutError the     *)
(* handler catches.                                                        *)
(***************************************************************************)
EXTENDS Integers, Sequences, FiniteSets, TLC

\* ---- program constants -------------------------------------------------
max_workers == 4
_CIRCUIT_FAILURE_THRESHOLD == 3
_CIRCUIT_RECOVERY_TIMEOUT == 30
_RETRY_MAX_RETRIES == 2
_RETRY_BASE_DELAY == 500            \* 0.5 s, in milliseconds

\* ---- bounds of the model -------------------------------------------------
MaxTime == 30          \* the clock stops here
MaxFailureCount == 4   \* no write starts with a failure_count this high
MaxQueue == 2          \* no write starts with more queued work items than this
MaxLate == 0           \* ... nor with more abandoned items that may still finish
\* The same for the specification of a healthy primary and a hanging secondary.
DownMaxTime == 60
DownMaxFailureCount == 5
\* The same for the specification of the reads.
ReadMaxTime == 60
ReadMaxFailureCount == 5
\* The same for the specification of the breaker alone, and its clock's step.
BreakerMaxTime == 40
BreakerMaxFailureCount == 5
BreakerStep == 10

PortMaxTime == 30
PortMaxFailureCount == 4

CallersMaxTime == 60
CallersMaxFailureCount == 4

\* ---- values ----------------------------------------------------------------
Stores == {"sql", "mongo"}
Other(s) == IF s = "sql" THEN "mongo" ELSE "sql"

CLOSED == "CLOSED"
OPEN == "OPEN"
HALF_OPEN == "HALF_OPEN"

None == "None"
TaskIds == {"X"}
Titulos == {"t"}

\* The arguments of a write: save(tarea) or eliminar(tarea_id).
SaveOps == [kind : {"save"}, id : TaskIds, titulo : Titulos]
EliminarOps == [kind : {"eliminar"}, id : TaskIds, titulo : {None}]
Ops == SaveOps \cup EliminarOps
NoOp == [kind |-> "none", id |-> None, titulo |-> None]
PingOp == [kind |-> "ping", id |-> None, titulo |-> None]

\* Errors a store adapter call can raise, as the retry policy classifies them.
RETRYABLE_EXCEPTIONS == {"transient"}
StoreErrors == {"transient", "logic"}
Outcomes == {"ok"} \cup StoreErrors
ProbeResults == {"up", "down"}

\* The threads that call get concurrently, and a thread outside get.
Threads == {"t1", "t2"}
Idle == [pc |-> "idle", store |-> None, seen |-> None]

VARIABLES
    now,          \* time.monotonic(), in seconds
    cb,           \* the two CircuitBreaker objects
    db,           \* what each store holds: db[s][id] is a titulo or None
    fut,          \* the caller's two futures (probe or operation), by store
    queue,        \* the pool's work queue (FIFO) of items no worker has taken
    abandoned,    \* running work items whose future nobody waits for any more
    hung,         \* how many more of those are blocked for ever
    pc,           \* the caller's position in _dispatch_escritura
    op,           \* the write being dispatched
    pre,          \* the breakers as they were when the write started
    allowed,      \* sql_allowed, mongo_allowed
    ping_ok,      \* sql_ok, mongo_ok: "up" for True, "down" for False
    target,       \* the store of the single-store path
    attempt,      \* retry_with_backoff's loop variable
    attempt_log,  \* outcomes of the attempts of the single-store path
    slept,        \* the delays retry_with_backoff has slept, in milliseconds
    ready,        \* as_completed: finished futures not yet yielded
    pendingF,     \* as_completed: futures not yet yielded
    op_error,     \* sql_error, mongo_error of _execute_parallel
    at_deadline,  \* what each future was when as_completed raised TimeoutError
    result,       \* what the write returned or raised
    calls,        \* adapter invocations of the write, by store
    op_outcome,   \* how the write's last adapter call ended on each store, if it has
    probed,       \* whether the write ran _ping_ambas_bdd
    n_success,    \* record_success calls of the write, by breaker
    n_failure,    \* record_failure calls of the write, by breaker
    eliminated,   \* ids whose eliminar returned without raising, no save since
    streak,       \* consecutive finished writes whose probes found only the primary
    callers       \* concurrent callers of get: the store each is calling, if any,
                  \* and the breaker state its admission saw

vars == <<now, cb, db, fut, queue, abandoned, hung, pc, op, pre, allowed, ping_ok,
          target, attempt, attempt_log, slept, ready, pendingF, op_error,
          at_deadline, result, calls, op_outcome, probed, n_success,
          n_failure, eliminated, streak, callers>>

poolVars == <<fut, queue, abandoned, hung>>
parVars == <<ready, pendingF, op_error, at_deadline>>
soloVars == <<target, attempt, attempt_log, slept>>
obsVars == <<calls, op_outcome, probed, n_success, n_failure>>
histVars == <<eliminated, streak, callers>>

\* ---- circuit breaker ---------------------------------------------------------

\* last_failure_time is <<>> for None and <<t>> for the time t.
CircuitBreaker == [state |-> CLOSED, failure_count |-> 0, last_failure_time |-> <<>>]

\* A variant that waits until strictly after the recovery timeout.
state_StrictlyAfter(b, t) ==
    IF /\ b.state = OPEN
       /\ b.last_failure_time # <<>>
       /\ t - b.last_failure_time[1] > _CIRCUIT_RECOVERY_TIMEOUT
    THEN [b EXCEPT !.state = HALF_OPEN]
    ELSE b

\* The `state` property at time t: the breaker after the lazy OPEN -> HALF_OPEN
\* transition; its state field is the value the property returns.
state(b, t) ==
    IF /\ b.state = OPEN
       /\ b.last_failure_time # <<>>
       /\ t - b.last_failure_time[1] >= _CIRCUIT_RECOVERY_TIMEOUT
    THEN [b EXCEPT !.state = HALF_OPEN]
    ELSE b

\* A variant that admits requests while OPEN.
allow_request_OpenAdmits(b, t) == TRUE

allow_request(b, t) ==
    LET current_state == state(b, t).state
    IN  IF current_state = CLOSED THEN TRUE
        ELSE IF current_state = HALF_OPEN THEN TRUE
        ELSE FALSE

\* A variant that keeps the time of the last failure.
record_success_KeepsTime(b) ==
    [b EXCEPT !.state = CLOSED, !.failure_count = 0]

\* A variant that closes the breaker but keeps the count.
record_success_KeepsCount(b) ==
    [b EXCEPT !.state = CLOSED]

record_success(b) ==
    [state |-> CLOSED, failure_count |-> 0, last_failure_time |-> <<>>]

\* A variant that does not note the time of the failure.
record_failure_NoStamp(b, t) ==
    LET n == b.failure_count + 1
    IN  [state |-> IF b.state = HALF_OPEN THEN OPEN
                   ELSE IF n >= _CIRCUIT_FAILURE_THRESHOLD THEN OPEN
                   ELSE b.state,
         failure_count |-> n,
         last_failure_time |-> b.last_failure_time]

\* A variant that opens one failure early.
record_failure_OpensEarly(b, t) ==
    LET n == b.failure_count + 1
    IN  [state |-> IF b.state = HALF_OPEN THEN OPEN
                   ELSE IF n + 1 >= _CIRCUIT_FAILURE_THRESHOLD THEN OPEN
                   ELSE b.state,
         failure_count |-> n,
         last_failure_time |-> <<t>>]

\* A variant that opens one failure late.
record_failure_OpensLate(b, t) ==
    LET n == b.failure_count + 1
    IN  [state |-> IF b.state = HALF_OPEN THEN OPEN
                   ELSE IF n > _CIRCUIT_FAILURE_THRESHOLD THEN OPEN
                   ELSE b.state,
         failure_count |-> n,
         last_failure_time |-> <<t>>]

\* A variant where a failed trial leaves the breaker HALF_OPEN.
record_failure_TrialStays(b, t) ==
    LET n == b.failure_count + 1
    IN  [state |-> IF b.state = HALF_OPEN THEN HALF_OPEN
                   ELSE IF n >= _CIRCUIT_FAILURE_THRESHOLD THEN OPEN
                   ELSE b.state,
         failure_count |-> n,
         last_failure_time |-> <<t>>]

\* A variant that forgets the count when the trial request fails.
record_failure_TrialUncounted(b, t) ==
    IF b.state = HALF_OPEN
    THEN [b EXCEPT !.state = OPEN, !.last_failure_time = <<t>>]
    ELSE LET n == b.failure_count + 1
         IN  [state |-> IF n >= _CIRCUIT_FAILURE_THRESHOLD THEN OPEN ELSE b.state,
              failure_count |-> n,
              last_failure_time |-> <<t>>]

record_failure(b, t) ==
    LET n == b.failure_count + 1
    IN  [state |-> IF b.state = HALF_OPEN THEN OPEN
                   ELSE IF n >= _CIRCUIT_FAILURE_THRESHOLD THEN OPEN
                   ELSE b.state,
         failure_count |-> n,
         last_failure_time |-> <<t>>]

reset(b) ==
    [state |-> CLOSED, failure_count |-> 0, last_failure_time |-> <<>>]

\* ---- store adapters ----------------------------------------------------------

\* The effect of a store call that completes without raising.
Apply(d, o) ==
    IF o.kind = "save" THEN [d EXCEPT ![o.id] = o.titulo]
    ELSE IF o.kind = "eliminar" THEN [d EXCEPT ![o.id] = None]
    ELSE d

StoreGet(d, id) == d[id]

\* What a store's list() returns: the tasks it holds.
StoreList(d) == {[id |-> i, titulo |-> d[i]] : i \in {j \in TaskIds : d[j] # None}}

\* ---- retry policy -------------------------------------------------------------

\* A variant whose delay does not grow.
Delay_Constant(k) == _RETRY_BASE_DELAY

\* The delay retry_with_backoff sleeps after the failed attempt k.
Delay(k) == _RETRY_BASE_DELAY * 2 ^ (k - 1)

\* A variant with one retry too many.
RetryDecision_OneRetryMore(k, o) ==
    IF o = "ok" THEN "return"
    ELSE IF o \in RETRYABLE_EXCEPTIONS
         THEN IF k <= _RETRY_MAX_RETRIES + 1 THEN "retry" ELSE "raise"
         ELSE "raise"

\* A variant that retries every error.
RetryDecision_RetriesAll(k, o) ==
    IF o = "ok" THEN "return"
    ELSE IF k <= _RETRY_MAX_RETRIES THEN "retry" ELSE "raise"

\* A variant with one retry too few.
RetryDecision_OneRetryShort(k, o) ==
    IF o = "ok" THEN "return"
    ELSE IF o \in RETRYABLE_EXCEPTIONS
         THEN IF k < _RETRY_MAX_RETRIES THEN "retry" ELSE "raise"
         ELSE "raise"

\* What retry_with_backoff does after attempt k ended with outcome o.
RetryDecision(k, o) ==
    IF o = "ok" THEN "return"
    ELSE IF o \in RETRYABLE_EXCEPTIONS
         THEN IF k <= _RETRY_MAX_RETRIES THEN "retry" ELSE "raise"
         ELSE "raise"

\* ---- worker pool --------------------------------------------------------------

AbTasks == [store : Stores, op : Ops \cup {PingOp}]

RECURSIVE SumOver(_, _)
SumOver(f, S) ==
    IF S = {} THEN 0
    ELSE LET x == CHOOSE y \in S : TRUE
         IN  f[x] + SumOver(f, S \ {x})

\* Worker threads that are running a work item.
Busy(p) ==
    Cardinality({s \in Stores : p.fut[s] = "running"})
    + SumOver(p.abandoned, AbTasks) + p.hung

FutDone(v) == v \notin {"none", "queued", "running"}

\* executor.submit of the caller's work item for store s: a free worker takes
\* it at once, otherwise it waits in the queue.
Submit(p, s) ==
    IF Busy(p) < max_workers
    THEN [p EXCEPT !.fut[s] = "running"]
    ELSE [p EXCEPT !.fut[s] = "queued",
                   !.queue = Append(@, [store |-> s, own |-> TRUE])]

\* A worker that finished its item takes the next one of the queue.
StartNext(p) ==
    IF p.queue = <<>> THEN p
    ELSE LET h == Head(p.queue)
         IN  IF h.own
             THEN [p EXCEPT !.fut[h.store] = "running", !.queue = Tail(@)]
             ELSE [p EXCEPT !.abandoned[[store |-> h.store, op |-> PingOp]] = @ + 1,
                            !.queue = Tail(@)]

\* The caller stops waiting: its running items keep their workers, its queued
\* items stay in the queue.
Disown(p, o) ==
    [fut |-> [s \in Stores |-> "none"],
     hung |-> p.hung,
     queue |-> [i \in 1..Len(p.queue) |-> [p.queue[i] EXCEPT !.own = FALSE]],
     abandoned |->
        [a \in AbTasks |->
            p.abandoned[a]
            + (IF p.fut[a.store] = "running" /\ a.op = o THEN 1 ELSE 0)]]

\* future.cancel(): a queued item is dropped, a running one is left running.
Cancel(p, s, o) ==
    IF p.fut[s] = "queued"
    THEN [p EXCEPT !.fut[s] = "cancelled",
                   !.queue = SelectSeq(@, LAMBDA h : ~(h.own /\ h.store = s))]
    ELSE IF p.fut[s] = "running"
    THEN [p EXCEPT !.fut[s] = "abandoned",
                   !.abandoned[[store |-> s, op |-> o]] = @ + 1]
    ELSE p

Pool == [fut |-> fut, queue |-> queue, abandoned |-> abandoned, hung |-> hung]
SetPool(p) ==
    /\ fut' = p.fut
    /\ queue' = p.queue
    /\ abandoned' = p.abandoned
    /\ hung' = p.hung

\* ---- the write dispatcher ------------------------------------------------------

NoResult == [kind |-> "none", sql_error |-> None, mongo_error |-> None]
Returned == [kind |-> "ok", sql_error |-> None, mongo_error |-> None]
Raised(k, se, me) == [kind |-> k, sql_error |-> se, mongo_error |-> me]

\* A variant that probes when both breakers deny.
Route_ProbeWhenBothDeny(sql_allowed, mongo_allowed) ==
    IF sql_allowed /\ ~mongo_allowed THEN "solo_sql"
    ELSE IF mongo_allowed /\ ~sql_allowed THEN "solo_mongo"
    ELSE "ping"

\* Which branch _dispatch_escritura takes on the two admission decisions.
Route(sql_allowed, mongo_allowed) ==
    IF ~sql_allowed /\ ~mongo_allowed THEN "abort"
    ELSE IF sql_allowed /\ ~mongo_allowed THEN "solo_sql"
    ELSE IF mongo_allowed /\ ~sql_allowed THEN "solo_mongo"
    ELSE "ping"

\* A variant without the fail-fast branch.
PingRoute_NoFailFast(sql_ok, mongo_ok) ==
    IF sql_ok /\ ~mongo_ok THEN "solo_sql"
    ELSE IF mongo_ok /\ ~sql_ok THEN "solo_mongo"
    ELSE "parallel"

\* Which branch it takes on the two probe results.
PingRoute(sql_ok, mongo_ok) ==
    IF ~sql_ok /\ ~mongo_ok THEN "abort"
    ELSE IF sql_ok /\ ~mongo_ok THEN "solo_sql"
    ELSE IF mongo_ok /\ ~sql_ok THEN "solo_mongo"
    ELSE "parallel"

\* The end of _dispatch_escritura after _execute_parallel.
Aggregate(sql_error, mongo_error) ==
    IF sql_error # None /\ mongo_error # None
    THEN Raised("BothFailed", sql_error, mongo_error)
    ELSE Returned

Zero == [s \in Stores |-> 0]

Init ==
    /\ now = 0
    /\ cb = [s \in Stores |-> CircuitBreaker]
    /\ db = [s \in Stores |-> [i \in TaskIds |-> None]]
    /\ fut = [s \in Stores |-> "none"]
    /\ queue = <<>>
    /\ abandoned = [a \in AbTasks |-> 0]
    /\ hung = 0
    /\ pc = "idle"
    /\ op = NoOp
    /\ pre = [s \in Stores |-> CircuitBreaker]
    /\ allowed = [s \in Stores |-> FALSE]
    /\ ping_ok = [s \in Stores |-> None]
    /\ target = None
    /\ attempt = 0
    /\ attempt_log = <<>>
    /\ slept = <<>>
    /\ ready = {}
    /\ pendingF = {}
    /\ op_error = [s \in Stores |-> None]
    /\ at_deadline = [s \in Stores |-> None]
    /\ result = NoResult
    /\ calls = Zero
    /\ op_outcome = [s \in Stores |-> None]
    /\ probed = FALSE
    /\ n_success = Zero
    /\ n_failure = Zero
    /\ eliminated = {}
    /\ streak = 0
    /\ callers = [t \in Threads |-> Idle]

\* _dispatch_escritura, lines 258-291: the admission decisions and the branch
\* taken on them, up to the submission of the two probes.
DispatchEscritura(o) ==
    /\ pc = "idle"
    /\ LET al == [s \in Stores |-> allow_request(cb[s], now)]
           r == Route(al["sql"], al["mongo"])
       IN  /\ op' = o
           /\ pre' = cb
           /\ cb' = [s \in Stores |-> state(cb[s], now)]
           /\ allowed' = al
           /\ CASE r = "abort" ->
                    /\ pc' = "done"
                    /\ result' = Raised("BothUnavailable_breakers", None, None)
                    /\ UNCHANGED <<poolVars, soloVars, probed>>
                [] r = "solo_sql" ->
                    /\ pc' = "solo"
                    /\ target' = "sql"
                    /\ attempt' = 1
                    /\ UNCHANGED <<poolVars, attempt_log, slept, result, probed>>
                [] r = "solo_mongo" ->
                    /\ pc' = "solo"
                    /\ target' = "mongo"
                    /\ attempt' = 1
                    /\ UNCHANGED <<poolVars, attempt_log, slept, result, probed>>
                [] r = "ping" ->
                    /\ pc' = "ping_sql"
                    /\ probed' = TRUE
                    /\ SetPool(Submit(Submit(Pool, "sql"), "mongo"))
                    /\ UNCHANGED <<soloVars, result>>
    /\ UNCHANGED <<now, db, ping_ok, parVars, calls, op_outcome, n_success,
                   n_failure>>

save(tarea) ==
    /\ DispatchEscritura([kind |-> "save", id |-> tarea.id, titulo |-> tarea.titulo])
    /\ eliminated' = eliminated \ {tarea.id}
    /\ UNCHANGED <<streak, callers>>

eliminar(tarea_id) ==
    /\ DispatchEscritura([kind |-> "eliminar", id |-> tarea_id, titulo |-> None])
    /\ UNCHANGED histVars


\* ---- worker threads ------------------------------------------------------------

PingPhase == pc \in {"ping_sql", "ping_mongo"}

\* The work item the caller's future for a store stands for.
OwnItem == IF PingPhase THEN PingOp ELSE op

\* Adapter invocations after the pool went from futures f to futures f2: an
\* operation is invoked when a worker starts it.
CallsAfter(f, f2) ==
    [s \in Stores |->
        calls[s] + (IF f[s] # "running" /\ f2[s] = "running" THEN 1 ELSE 0)]

\* A worker finishes the caller's probe or operation on store s with outcome v
\* (the store's answer), sets the future and takes the next queued item.
OwnComplete(s, v) ==
    /\ fut[s] = "running"
    /\ v \in (IF PingPhase THEN ProbeResults ELSE Outcomes)
    /\ LET p == StartNext([Pool EXCEPT !.fut[s] = v])
       IN  /\ SetPool(p)
           /\ calls' = IF PingPhase THEN calls ELSE CallsAfter(fut, p.fut)
    /\ db' = IF v = "ok" THEN [db EXCEPT ![s] = Apply(@, OwnItem)] ELSE db
    /\ op_outcome' = IF PingPhase THEN op_outcome ELSE [op_outcome EXCEPT ![s] = v]
    /\ UNCHANGED <<now, cb, pc, op, pre, allowed, ping_ok, soloVars, parVars,
                   result, probed, n_success, n_failure>>
    /\ UNCHANGED histVars

\* A worker finishes an item nobody waits for (an operation abandoned at the
\* parallel deadline, or a probe left in the queue by a probe timeout).
AbandonedComplete(a, v) ==
    /\ abandoned[a] > 0
    /\ v \in (IF a.op = PingOp THEN {"up"} ELSE {"ok", "transient"})
    /\ LET p == StartNext([Pool EXCEPT !.abandoned[a] = @ - 1])
       IN  /\ SetPool(p)
           /\ calls' = IF PingPhase THEN calls ELSE CallsAfter(fut, p.fut)
    /\ db' = IF v = "ok" THEN [db EXCEPT ![a.store] = Apply(@, a.op)] ELSE db
    /\ UNCHANGED <<now, cb, pc, op, pre, allowed, ping_ok, soloVars, parVars,
                   result, op_outcome, probed, n_success, n_failure>>
    /\ UNCHANGED histVars

\* An abandoned store operation never returns: its worker is lost for good.
BlockForever(a) ==
    /\ abandoned[a] > 0
    /\ a.op # PingOp
    /\ abandoned' = [abandoned EXCEPT ![a] = @ - 1]
    /\ hung' = hung + 1
    /\ UNCHANGED <<now, cb, db, fut, queue, pc, op, pre, allowed, ping_ok,
                   soloVars, parVars, result, obsVars>>
    /\ UNCHANGED histVars

\* ---- the caller: probes ---------------------------------------------------------

NoFut == [s \in Stores |-> "none"]

\* The write ends (returns or raises) with result r, leaving pool p behind.
EndCall(r, p) ==
    /\ pc' = "done"
    /\ result' = r
    /\ SetPool(Disown(p, OwnItem))

\* _ping_ambas_bdd line 90: future_sql.result(timeout) returns the probe's answer.
PingSqlResult ==
    /\ pc = "ping_sql"
    /\ fut["sql"] \in ProbeResults
    /\ ping_ok' = [ping_ok EXCEPT !["sql"] = fut["sql"]]
    /\ pc' = "ping_mongo"
    /\ UNCHANGED <<now, cb, db, poolVars, op, pre, allowed, soloVars, parVars,
                   result, obsVars>>
    /\ UNCHANGED histVars

\* _ping_ambas_bdd line 90: future_sql.result(timeout) raises TimeoutError when
\* no worker took the probe in time; _dispatch_escritura does not catch it.
\* (The worker that finishes the first probe takes the second one, and a probe
\* answers within its own connection timeout, so the second wait cannot expire.)
PingTimeout ==
    /\ pc = "ping_sql"
    /\ fut["sql"] = "queued"
    /\ EndCall(Raised("PingTimeout", None, None), Pool)
    /\ UNCHANGED <<now, cb, db, op, pre, allowed, ping_ok, soloVars, parVars,
                   obsVars>>
    /\ UNCHANGED histVars

\* _ping_ambas_bdd line 91 and _dispatch_escritura lines 291-326: the second
\* probe's answer and the branch taken on the two answers.
PingMongoResult ==
    /\ pc = "ping_mongo"
    /\ fut["mongo"] \in ProbeResults
    /\ LET sql_ok == (ping_ok["sql"] = "up")
           mongo_ok == (fut["mongo"] = "up")
           r == PingRoute(sql_ok, mongo_ok)
           p0 == [Pool EXCEPT !.fut = NoFut]
       IN  /\ ping_ok' = [ping_ok EXCEPT !["mongo"] = fut["mongo"]]
           /\ CASE r = "abort" ->
                    /\ cb' = [s \in Stores |-> record_failure(cb[s], now)]
                    /\ n_failure' = [s \in Stores |-> n_failure[s] + 1]
                    /\ pc' = "done"
                    /\ result' = Raised("BothUnavailable_ping", None, None)
                    /\ SetPool(p0)
                    /\ UNCHANGED <<soloVars, pendingF, calls>>
                [] r \in {"solo_sql", "solo_mongo"} ->
                    LET t == IF r = "solo_sql" THEN "sql" ELSE "mongo"
                    IN  /\ cb' = [cb EXCEPT ![Other(t)] = record_failure(@, now)]
                        /\ n_failure' = [n_failure EXCEPT ![Other(t)] = @ + 1]
                        /\ pc' = "solo"
                        /\ target' = t
                        /\ attempt' = 1
                        /\ SetPool(p0)
                        /\ UNCHANGED <<attempt_log, slept, pendingF, calls, result>>
                [] r = "parallel" ->
                    LET p == Submit(Submit(p0, "sql"), "mongo")
                    IN  /\ pc' = "par"
                        /\ SetPool(p)
                        /\ calls' = CallsAfter(NoFut, p.fut)
                        /\ pendingF' = Stores
                        /\ UNCHANGED <<cb, n_failure, soloVars, result>>
    /\ UNCHANGED <<now, db, op, pre, allowed, ready, op_error, at_deadline,
                   op_outcome, probed, n_success>>
    /\ UNCHANGED histVars

\* ---- the caller: single-store path ---------------------------------------------

\* _execute_solo_sql / _execute_solo_mongo: one attempt of retry_with_backoff on
\* the target store, with outcome v, and what follows it.
SoloAttempt(v) ==
    /\ pc = "solo"
    /\ v \in Outcomes
    /\ LET d == RetryDecision(attempt, v)
       IN  /\ calls' = [calls EXCEPT ![target] = @ + 1]
           /\ op_outcome' = [op_outcome EXCEPT ![target] = v]
           /\ attempt_log' = Append(attempt_log, v)
           /\ CASE d = "return" ->
                    /\ db' = [db EXCEPT ![target] = Apply(@, op)]
                    /\ cb' = [cb EXCEPT ![target] = record_success(@)]
                    /\ n_success' = [n_success EXCEPT ![target] = @ + 1]
                    /\ pc' = "done"
                    /\ result' = Returned
                    /\ UNCHANGED <<attempt, slept, n_failure>>
                [] d = "retry" ->
                    /\ slept' = Append(slept, Delay(attempt))
                    /\ attempt' = attempt + 1
                    /\ UNCHANGED <<db, cb, n_success, n_failure, pc, result>>
                [] d = "raise" ->
                    /\ cb' = [cb EXCEPT ![target] = record_failure(@, now)]
                    /\ n_failure' = [n_failure EXCEPT ![target] = @ + 1]
                    /\ pc' = "done"
                    /\ result' = IF target = "sql"
                                 THEN Raised("StoreError", v, None)
                                 ELSE Raised("StoreError", None, v)
                    /\ UNCHANGED <<db, attempt, slept, n_success>>
    /\ UNCHANGED <<now, poolVars, op, pre, allowed, ping_ok, target, parVars,
                   probed>>
    /\ UNCHANGED histVars


\* ---- the caller: parallel path --------------------------------------------------

\* as_completed: the wait returns with the futures that have finished.
ParWake ==
    /\ pc = "par"
    /\ ready = {}
    /\ LET fin == {s \in pendingF : FutDone(fut[s])}
       IN  /\ fin # {}
           /\ ready' = fin
    /\ UNCHANGED <<now, cb, db, poolVars, pc, op, pre, allowed, ping_ok,
                   soloVars, pendingF, op_error, at_deadline, result, obsVars>>
    /\ UNCHANGED histVars

\* _execute_parallel lines 171-192: as_completed yields the finished future of
\* store s and the loop body records its outcome; after the last future the
\* loop ends and _dispatch_escritura aggregates (lines 326-341).
ParYield(s) ==
    /\ pc = "par"
    /\ s \in ready
    /\ LET ok == (fut[s] = "ok")
           errs == IF ok THEN op_error ELSE [op_error EXCEPT ![s] = fut[s]]
       IN  /\ op_error' = errs
           /\ cb' = [cb EXCEPT ![s] = IF ok THEN record_success(@)
                                     ELSE record_failure(@, now)]
           /\ n_success' = IF ok THEN [n_success EXCEPT ![s] = @ + 1] ELSE n_success
           /\ n_failure' = IF ok THEN n_failure ELSE [n_failure EXCEPT ![s] = @ + 1]
           /\ ready' = ready \ {s}
           /\ pendingF' = pendingF \ {s}
           /\ IF pendingF \ {s} = {}
              THEN EndCall(Aggregate(errs["sql"], errs["mongo"]), Pool)
              ELSE UNCHANGED <<pc, result, poolVars>>
    /\ UNCHANGED <<now, db, op, pre, allowed, ping_ok, soloVars, at_deadline,
                   calls, op_outcome, probed>>
    /\ UNCHANGED histVars

\* _execute_parallel line 193: as_completed finds the deadline passed with
\* futures it has not yielded and raises TimeoutError, whether or not they
\* have finished since its last look.
ParTimeout ==
    /\ pc = "par"
    /\ ready = {}
    /\ pendingF # {}
    /\ at_deadline' = [s \in Stores |->
                          IF s \in pendingF THEN fut[s] ELSE "processed"]
    /\ pc' = "to_sql"
    /\ UNCHANGED <<now, cb, db, poolVars, op, pre, allowed, ping_ok, soloVars,
                   ready, pendingF, op_error, result, obsVars>>
    /\ UNCHANGED histVars

\* What the handler's test of one future does: a future that is not done is
\* given a timeout error, its breaker records a failure and it is cancelled.
\* Yields <<error, breaker, failures recorded, pool>>.
CheckDone(s, p) ==
    IF ~FutDone(p.fut[s])
    THEN <<"timeout", record_failure(cb[s], now), 1, Cancel(p, s, op)>>
    ELSE <<op_error[s], cb[s], 0, p>>

\* _execute_parallel lines 195-199: if not future_sql.done().
TimeoutCheckSql ==
    /\ pc = "to_sql"
    /\ LET c == CheckDone("sql", Pool)
       IN  /\ op_error' = [op_error EXCEPT !["sql"] = c[1]]
           /\ cb' = [cb EXCEPT !["sql"] = c[2]]
           /\ n_failure' = [n_failure EXCEPT !["sql"] = @ + c[3]]
           /\ SetPool(c[4])
    /\ pc' = "to_mongo"
    /\ UNCHANGED <<now, db, op, pre, allowed, ping_ok, soloVars, ready,
                   pendingF, at_deadline, result, calls, op_outcome, probed,
                   n_success>>
    /\ UNCHANGED histVars

\* _execute_parallel lines 200-206 and _dispatch_escritura lines 326-341: if not
\* future_mongo.done(), then the aggregation of the two errors.
TimeoutCheckMongo ==
    /\ pc = "to_mongo"
    /\ LET c == CheckDone("mongo", Pool)
       IN  /\ op_error' = [op_error EXCEPT !["mongo"] = c[1]]
           /\ cb' = [cb EXCEPT !["mongo"] = c[2]]
           /\ n_failure' = [n_failure EXCEPT !["mongo"] = @ + c[3]]
           /\ EndCall(Aggregate(op_error["sql"], c[1]), c[4])
    /\ UNCHANGED <<now, db, op, pre, allowed, ping_ok, soloVars, ready,
                   pendingF, at_deadline, calls, op_outcome, probed, n_success>>
    /\ UNCHANGED histVars

\* ---- the caller returns; time passes -------------------------------------------

\* The caller has its result; the next call starts from a clean frame.
FinishCall ==
    /\ pc = "done"
    /\ pc' = "idle"
    /\ op' = NoOp
    /\ pre' = cb
    /\ allowed' = [s \in Stores |-> FALSE]
    /\ ping_ok' = [s \in Stores |-> None]
    /\ target' = None
    /\ attempt' = 0
    /\ attempt_log' = <<>>
    /\ slept' = <<>>
    /\ ready' = {}
    /\ pendingF' = {}
    /\ op_error' = [s \in Stores |-> None]
    /\ at_deadline' = [s \in Stores |-> None]
    /\ result' = NoResult
    /\ calls' = Zero
    /\ op_outcome' = [s \in Stores |-> None]
    /\ probed' = FALSE
    /\ n_success' = Zero
    /\ n_failure' = Zero
    /\ UNCHANGED <<now, cb, db, poolVars>>

Finish ==
    /\ FinishCall
    /\ UNCHANGED histVars

\* time.monotonic() advances, up to the limit.
Tick(limit) ==
    /\ pc = "idle"
    /\ now + _CIRCUIT_RECOVERY_TIMEOUT <= limit
    /\ now' = now + _CIRCUIT_RECOVERY_TIMEOUT
    /\ UNCHANGED <<cb, db, poolVars, pc, op, pre, allowed, ping_ok, soloVars,
                   parVars, result, obsVars, histVars>>

Tareas == [id : TaskIds, titulo : Titulos]

\* A write may start: the counters the model caps are below their caps.
Bounded(maxFailureCount) ==
    /\ \A s \in Stores : cb[s].failure_count < maxFailureCount
    /\ Len(queue) <= MaxQueue
    /\ SumOver(abandoned, AbTasks) <= MaxLate

Next ==
    \/ \E t \in Tareas : Bounded(MaxFailureCount) /\ save(t)
    \/ \E i \in TaskIds : Bounded(MaxFailureCount) /\ eliminar(i)
    \/ \E s \in Stores, v \in Outcomes \cup ProbeResults : OwnComplete(s, v)
    \/ \E a \in AbTasks, v \in Outcomes \cup ProbeResults : AbandonedComplete(a, v)
    \/ \E a \in AbTasks : BlockForever(a)
    \/ PingSqlResult
    \/ PingTimeout
    \/ PingMongoResult
    \/ \E v \in Outcomes : SoloAttempt(v)
    \/ ParWake
    \/ \E s \in Stores : ParYield(s)
    \/ ParTimeout
    \/ TimeoutCheckSql
    \/ TimeoutCheckMongo
    \/ Finish
    \/ Tick(MaxTime)

Spec == Init /\ [][Next]_vars


\* ---- a healthy primary and a secondary that is down ---------------------------
\* The same program in the environment of a healthy primary (its probe answers
\* up, its operations succeed, well within the deadlines) and a secondary whose
\* operations block for ever while its probe still answers.

DownOwnComplete(s, v) ==
    /\ OwnComplete(s, v)
    /\ s = "sql" => v \in {"ok", "up"}
    /\ s = "mongo" => PingPhase

DownSoloAttempt ==
    /\ target = "sql"
    /\ SoloAttempt("ok")

DownParTimeout ==
    /\ fut["sql"] # "running"
    /\ ParTimeout

DownNext ==
    \/ \E t \in Tareas : Bounded(DownMaxFailureCount) /\ save(t)
    \/ \E i \in TaskIds : Bounded(DownMaxFailureCount) /\ eliminar(i)
    \/ \E s \in Stores, v \in Outcomes \cup ProbeResults : DownOwnComplete(s, v)
    \/ \E a \in AbTasks : BlockForever(a)
    \/ PingSqlResult
    \/ PingTimeout
    \/ PingMongoResult
    \/ DownSoloAttempt
    \/ ParWake
    \/ \E s \in Stores : ParYield(s)
    \/ DownParTimeout
    \/ TimeoutCheckSql
    \/ TimeoutCheckMongo
    \/ Finish
    \/ Tick(DownMaxTime)

SpecDown == Init /\ [][DownNext]_vars

\* ---- the reads: get and list ----------------------------------------------------
\* get and list run on the caller's thread: the primary first, through the
\* retry policy, then the secondary.  The stores start with any contents the
\* writes can leave behind (a task in both stores, in one, in none).

GetOps == [kind : {"get"}, id : TaskIds, titulo : {None}]
ListOp == [kind |-> "list", id |-> None, titulo |-> None]

\* A read returned value v.
ReadReturned(v) == [kind |-> "ok", sql_error |-> None, mongo_error |-> None, value |-> v]

\* What the store returns to the read o when the call does not raise.
ReadValue(d, o) == IF o.kind = "list" THEN StoreList(d) ELSE StoreGet(d, o.id)

\* A variant where a null from the primary ends get.
ReadStep_NullIsFinal(kind, s, d, value) ==
    IF d = "return"
    THEN IF kind = "list" \/ value # None THEN "return_value"
         ELSE "return_none"
    ELSE IF s = "sql" THEN "fallback"
         ELSE IF kind = "get" THEN "return_none"
         ELSE "raise_both_failed"

\* A variant where get raises like list when the secondary fails.
ReadStep_GetRaises(kind, s, d, value) ==
    IF d = "return"
    THEN IF kind = "list" \/ value # None THEN "return_value"
         ELSE IF s = "sql" THEN "fallback"
         ELSE "return_none"
    ELSE IF s = "sql" THEN "fallback"
         ELSE "raise_both_failed"

\* A variant where an empty list from the primary is not final.
ReadStep_EmptyListFallsBack(kind, s, d, value) ==
    IF d = "return"
    THEN IF (kind = "list" /\ (value # {} \/ s = "mongo")) \/ (kind = "get" /\ value # None)
         THEN "return_value"
         ELSE IF s = "sql" THEN "fallback"
         ELSE "return_none"
    ELSE IF s = "sql" THEN "fallback"
         ELSE IF kind = "get" THEN "return_none"
         ELSE "raise_both_failed"

\* Where get / list go after retry_with_backoff on store s ended with decision
\* d ("return" with the value, or "raise").
ReadStep(kind, s, d, value) ==
    IF d = "return"
    THEN IF kind = "list" \/ value # None THEN "return_value"
         ELSE IF s = "sql" THEN "fallback"
         ELSE "return_none"
    ELSE IF s = "sql" THEN "fallback"
         ELSE IF kind = "get" THEN "return_none"
         ELSE "raise_both_failed"

\* The second half of get / list, from `if self._mongo_circuit.allow_request()`
\* with the breakers c: the secondary is tried, or the read ends.  log is the
\* attempts of the call of retry_with_backoff that has ended, if there was one.
ReadFallback(c, o, log) ==
    /\ allowed' = [allowed EXCEPT !["mongo"] = allow_request(c["mongo"], now)]
    /\ cb' = [c EXCEPT !["mongo"] = state(@, now)]
    /\ IF allow_request(c["mongo"], now)
       THEN /\ pc' = "read"
            /\ target' = "mongo"
            /\ attempt' = 1
            /\ attempt_log' = <<>>
            /\ slept' = <<>>
            /\ UNCHANGED result
       ELSE /\ pc' = "done"
            /\ result' = IF o.kind = "get" THEN ReadReturned(None)
                         ELSE Raised("BothUnavailable_breakers", None, None)
            /\ attempt_log' = log
            /\ UNCHANGED <<target, attempt, slept>>

\* get / list up to the first store call.
ReadStart(o) ==
    /\ pc = "idle"
    /\ op' = o
    /\ pre' = cb
    /\ IF allow_request(cb["sql"], now)
       THEN /\ allowed' = [allowed EXCEPT !["sql"] = TRUE]
            /\ cb' = [cb EXCEPT !["sql"] = state(@, now)]
            /\ pc' = "read"
            /\ target' = "sql"
            /\ attempt' = 1
            /\ UNCHANGED <<attempt_log, slept, result>>
       ELSE ReadFallback([cb EXCEPT !["sql"] = state(@, now)], o, attempt_log)
    /\ UNCHANGED <<now, db, poolVars, ping_ok, parVars, obsVars>>
    /\ UNCHANGED histVars

\* A variant where get goes through the write dispatcher, probes included.
get_ViaDispatcher(tarea_id) ==
    /\ DispatchEscritura([kind |-> "get", id |-> tarea_id, titulo |-> None])
    /\ UNCHANGED histVars

get(tarea_id) == ReadStart([kind |-> "get", id |-> tarea_id, titulo |-> None])

list == ReadStart(ListOp)

\* One attempt of retry_with_backoff on the store being read, with outcome v,
\* and what follows it.
ReadAttempt(v) ==
    /\ pc = "read"
    /\ v \in Outcomes
    /\ calls' = [calls EXCEPT ![target] = @ + 1]
    /\ op_outcome' = [op_outcome EXCEPT ![target] = v]
    /\ LET d == RetryDecision(attempt, v)
           value == ReadValue(db[target], op)
           after == IF d = "return" THEN [cb EXCEPT ![target] = record_success(@)]
                    ELSE [cb EXCEPT ![target] = record_failure(@, now)]
           step == ReadStep(op.kind, target, d, value)
       IN  IF d = "retry"
           THEN /\ slept' = Append(slept, Delay(attempt))
                /\ attempt' = attempt + 1
                /\ attempt_log' = Append(attempt_log, v)
                /\ UNCHANGED <<cb, pc, target, allowed, result, op_error,
                               n_success, n_failure>>
           ELSE /\ n_success' = IF d = "return"
                                THEN [n_success EXCEPT ![target] = @ + 1]
                                ELSE n_success
                /\ n_failure' = IF d = "raise"
                                THEN [n_failure EXCEPT ![target] = @ + 1]
                                ELSE n_failure
                /\ op_error' = IF d = "raise"
                               THEN [op_error EXCEPT ![target] = v]
                               ELSE op_error
                /\ IF step = "fallback"
                   THEN ReadFallback(after, op, Append(attempt_log, v))
                   ELSE /\ cb' = after
                        /\ pc' = "done"
                        /\ attempt_log' = Append(attempt_log, v)
                        /\ result' =
                             CASE step = "return_value" -> ReadReturned(value)
                               [] step = "return_none" -> ReadReturned(None)
                               [] step = "raise_both_failed" ->
                                    Raised("BothFailed", None, v)
                        /\ UNCHANGED <<target, attempt, slept, allowed>>
    /\ UNCHANGED <<now, db, poolVars, op, pre, ping_ok, ready, pendingF,
                   at_deadline, probed>>
    /\ UNCHANGED histVars

ReadInit ==
    /\ now = 0
    /\ cb = [s \in Stores |-> CircuitBreaker]
    /\ db \in [Stores -> [TaskIds -> Titulos \cup {None}]]
    /\ fut = [s \in Stores |-> "none"]
    /\ queue = <<>>
    /\ abandoned = [a \in AbTasks |-> 0]
    /\ hung = 0
    /\ pc = "idle"
    /\ op = NoOp
    /\ pre = [s \in Stores |-> CircuitBreaker]
    /\ allowed = [s \in Stores |-> FALSE]
    /\ ping_ok = [s \in Stores |-> None]
    /\ target = None
    /\ attempt = 0
    /\ attempt_log = <<>>
    /\ slept = <<>>
    /\ ready = {}
    /\ pendingF = {}
    /\ op_error = [s \in Stores |-> None]
    /\ at_deadline = [s \in Stores |-> None]
    /\ result = NoResult
    /\ calls = Zero
    /\ op_outcome = [s \in Stores |-> None]
    /\ probed = FALSE
    /\ n_success = Zero
    /\ n_failure = Zero
    /\ eliminated = {}
    /\ streak = 0
    /\ callers = [t \in Threads |-> Idle]

ReadNext ==
    \/ \E i \in TaskIds : Bounded(ReadMaxFailureCount) /\ get(i)
    \/ Bounded(ReadMaxFailureCount) /\ list
    \/ \E v \in Outcomes : ReadAttempt(v)
    \/ Finish
    \/ Tick(ReadMaxTime)

SpecRead == ReadInit /\ [][ReadNext]_vars

\* ---- the circuit breaker alone ---------------------------------------------------
\* The methods of the two CircuitBreaker objects called in any order while the
\* clock advances.  pre[s] is breaker s before the last call on it, allowed[s]
\* the last answer of its allow_request, n_failure[s] the number of
\* record_failure calls on it since its construction or last record_success.

breakerFrame == <<db, poolVars, pc, op, ping_ok, soloVars, parVars, result, calls,
                  op_outcome, probed, n_success, histVars>>

CallState(s) ==
    /\ pre' = [pre EXCEPT ![s] = cb[s]]
    /\ cb' = [cb EXCEPT ![s] = state(@, now)]
    /\ UNCHANGED <<now, allowed, n_failure, breakerFrame>>

CallAllowRequest(s) ==
    /\ pre' = [pre EXCEPT ![s] = cb[s]]
    /\ cb' = [cb EXCEPT ![s] = state(@, now)]
    /\ allowed' = [allowed EXCEPT ![s] = allow_request(cb[s], now)]
    /\ UNCHANGED <<now, n_failure, breakerFrame>>

CallRecordSuccess(s) ==
    /\ pre' = [pre EXCEPT ![s] = cb[s]]
    /\ cb' = [cb EXCEPT ![s] = record_success(@)]
    /\ n_failure' = [n_failure EXCEPT ![s] = 0]
    /\ UNCHANGED <<now, allowed, breakerFrame>>

CallRecordFailure(s) ==
    /\ cb[s].failure_count < BreakerMaxFailureCount
    /\ pre' = [pre EXCEPT ![s] = cb[s]]
    /\ cb' = [cb EXCEPT ![s] = record_failure(@, now)]
    /\ n_failure' = [n_failure EXCEPT ![s] = @ + 1]
    /\ UNCHANGED <<now, allowed, breakerFrame>>

CallReset(s) ==
    /\ pre' = [pre EXCEPT ![s] = cb[s]]
    /\ cb' = [cb EXCEPT ![s] = reset(@)]
    /\ n_failure' = [n_failure EXCEPT ![s] = 0]
    /\ UNCHANGED <<now, allowed, breakerFrame>>

BreakerTick ==
    /\ now + BreakerStep <= BreakerMaxTime
    /\ now' = now + BreakerStep
    /\ UNCHANGED <<cb, pre, allowed, n_failure, breakerFrame>>

BreakerNext ==
    \/ \E s \in Stores : CallState(s)
    \/ \E s \in Stores : CallAllowRequest(s)
    \/ \E s \in Stores : CallRecordSuccess(s)
    \/ \E s \in Stores : CallRecordFailure(s)
    \/ \E s \in Stores : CallReset(s)
    \/ BreakerTick

SpecBreaker == Init /\ [][BreakerNext]_vars

\* ---- the repository behind its port ----------------------------------------------
\* save, eliminar, get and list called one after the other on the same
\* repository, with stores that answer every probe and operation within the
\* deadlines, with or without an error.  When a call returns, the history is
\* recorded: which ids have been eliminated, and how many writes in a row had
\* both breakers admit and the probes find only the primary.

\* The write that is finishing had both breakers admit (it ran the probes) and
\* its probes found the primary and not the secondary.
OnlyPrimaryProbed ==
    /\ op.kind \in {"save", "eliminar"}
    /\ probed
    /\ ping_ok = [sql |-> "up", mongo |-> "down"]

PortFinish ==
    /\ FinishCall
    /\ eliminated' = IF op.kind = "eliminar" /\ result.kind = "ok"
                     THEN eliminated \cup {op.id}
                     ELSE eliminated
    /\ streak' = IF OnlyPrimaryProbed THEN streak + 1 ELSE 0
    /\ UNCHANGED callers

PortNext ==
    \/ \E t \in Tareas : Bounded(PortMaxFailureCount) /\ save(t)
    \/ \E i \in TaskIds : Bounded(PortMaxFailureCount) /\ eliminar(i)
    \/ \E i \in TaskIds : Bounded(PortMaxFailureCount) /\ get(i)
    \/ Bounded(PortMaxFailureCount) /\ list
    \/ \E s \in Stores, v \in Outcomes \cup ProbeResults : OwnComplete(s, v)
    \/ PingSqlResult
    \/ PingMongoResult
    \/ \E v \in Outcomes : SoloAttempt(v)
    \/ \E v \in Outcomes : ReadAttempt(v)
    \/ ParWake
    \/ \E s \in Stores : ParYield(s)
    \/ PortFinish
    \/ Tick(PortMaxTime)

SpecPort == Init /\ [][PortNext]_vars

\* ---- concurrent callers of get -----------------------------------------------------
\* One repository object used by several threads at once (its breakers are
\* written to be thread-safe).  Each thread runs get: it asks the primary's breaker, calls the primary
\* through retry_with_backoff, records the outcome, and goes on to the
\* secondary in the same way when get falls back.  The threads interleave at
\* the breakers' method calls, which the breakers' locks make atomic; the
\* stores answer anything, and the clock advances at any moment.  pre is the
\* breakers before the last step of a thread.

callersFrame == <<db, poolVars, pc, op, allowed, ping_ok, soloVars, parVars,
                  result, obsVars, eliminated, streak>>

\* Thread t reaches `if self._<s>_circuit.allow_request()` with the breakers c:
\* it is admitted and starts calling store s, or goes on.
CallerAsk(t, s, c) ==
    LET c2 == [c EXCEPT ![s] = state(@, now)]
        m2 == [c2 EXCEPT !["mongo"] = state(@, now)]
    IN  IF allow_request(c[s], now)
        THEN /\ cb' = c2
             /\ callers' = [callers EXCEPT ![t] =
                                [pc |-> "calling", store |-> s, seen |-> c2[s].state]]
        ELSE IF s = "sql" /\ allow_request(c2["mongo"], now)
        THEN /\ cb' = m2
             /\ callers' = [callers EXCEPT ![t] =
                                [pc |-> "calling", store |-> "mongo",
                                 seen |-> m2["mongo"].state]]
        ELSE /\ cb' = IF s = "sql" THEN m2 ELSE c2
             /\ callers' = [callers EXCEPT ![t] = Idle]

\* Thread t enters get.
CallerGet(t) ==
    /\ callers[t].pc = "idle"
    /\ \A s \in Stores : cb[s].failure_count < CallersMaxFailureCount
    /\ CallerAsk(t, "sql", cb)
    /\ pre' = cb
    /\ UNCHANGED <<now, callersFrame>>

\* retry_with_backoff of thread t ends with decision d ("return" with the
\* value, or "raise"): the thread records it on the breaker and returns or
\* falls back.
CallerEnd(t, d, value) ==
    /\ callers[t].pc = "calling"
    /\ LET s == callers[t].store
           after == IF d = "return" THEN [cb EXCEPT ![s] = record_success(@)]
                    ELSE [cb EXCEPT ![s] = record_failure(@, now)]
       IN  IF ReadStep("get", s, d, value) = "fallback"
           THEN CallerAsk(t, "mongo", after)
           ELSE /\ cb' = after
                /\ callers' = [callers EXCEPT ![t] = Idle]
    /\ pre' = cb
    /\ UNCHANGED <<now, callersFrame>>

CallersTick ==
    /\ now + _CIRCUIT_RECOVERY_TIMEOUT <= CallersMaxTime
    /\ now' = now + _CIRCUIT_RECOVERY_TIMEOUT
    /\ UNCHANGED <<cb, pre, callers, callersFrame>>

CallersNext ==
    \/ \E t \in Threads : CallerGet(t)
    \/ \E t \in Threads, d \in {"return", "raise"}, value \in Titulos \cup {None} :
          CallerEnd(t, d, value)
    \/ CallersTick

SpecCallers == Init /\ [][CallersNext]_vars

\* ---- claims ---------------------------------------------------------------------

Done == pc = "done"
InCall == pc # "idle"
Succeeded(s) == op_outcome[s] = "ok"

\* A breaker in state b admits a request observed at time t.
Admitted(b, t) ==
    \/ b.state \in {CLOSED, HALF_OPEN}
    \/ /\ b.state = OPEN
       /\ b.last_failure_time # <<>>
       /\ t - b.last_failure_time[1] >= _CIRCUIT_RECOVERY_TIMEOUT

\* The write in progress started with store s admitted and the other denied.
OnlyAdmitted(s) ==
    /\ InCall
    /\ Admitted(pre[s], now)
    /\ ~Admitted(pre[Other(s)], now)

\* The write in progress started with both stores admitted and its probes
\* answered a for the primary and b for the secondary.
BothProbed(a, b) ==
    /\ InCall
    /\ \A s \in Stores : Admitted(pre[s], now)
    /\ probed
    /\ ping_ok["sql"] = a
    /\ ping_ok["mongo"] = b

\* The store operation of the parallel path failed: it raised, or it was still
\* pending when the handler of the deadline looked at it.
FailedOp(s) ==
    \/ op_outcome[s] \in StoreErrors
    \/ op_outcome[s] = None /\ op_error[s] = "timeout"

ErrorOf(s) == IF op_outcome[s] \in StoreErrors THEN op_outcome[s] ELSE "timeout"

\* C1: when save (resp. eliminar) returns without raising, at least one store
\* has completed it, and that store's get returns the task (resp. null).
C1_AcceptedWriteIsStored ==
    (Done /\ result.kind = "ok")
        => \E s \in Stores : Succeeded(s) /\ StoreGet(db[s], op.id) = op.titulo

\* C2: with a healthy primary and a secondary that is down (its operations
\* block for ever, its probe answers), every write returns success.
C2_HealthyPrimaryWritesSucceed ==
    Done => result.kind = "ok"

C4_SingleAdmittedStore ==
    \A s \in Stores :
        OnlyAdmitted(s) =>
            /\ ~probed
            /\ pc \in {"solo", "done"}
            /\ target = s
            /\ calls[Other(s)] = 0
            /\ cb[Other(s)] = pre[Other(s)]
            /\ n_success[Other(s)] = 0 /\ n_failure[Other(s)] = 0
            /\ Done =>
                 /\ calls[s] = Len(attempt_log)
                 /\ calls[s] >= 1
                 /\ LET last == attempt_log[Len(attempt_log)]
                    IN  IF last = "ok"
                        THEN /\ result = Returned
                             /\ n_success[s] = 1 /\ n_failure[s] = 0
                             /\ cb[s].state = CLOSED /\ cb[s].failure_count = 0
                        ELSE /\ result.kind = "StoreError"
                             /\ (IF s = "sql" THEN result.sql_error
                                 ELSE result.mongo_error) = last
                             /\ n_failure[s] = 1 /\ n_success[s] = 0
                             /\ cb[s].failure_count = pre[s].failure_count + 1
                             /\ last \in RETRYABLE_EXCEPTIONS
                                  => calls[s] = 1 + _RETRY_MAX_RETRIES
                             /\ last \notin RETRYABLE_EXCEPTIONS
                                  => \A i \in 1..(Len(attempt_log) - 1) :
                                        attempt_log[i] \in RETRYABLE_EXCEPTIONS

C4_Witness ==
    \E s \in Stores :
        /\ OnlyAdmitted(s)
        /\ Done
        /\ result.kind = "StoreError"
        /\ calls[s] = 1 + _RETRY_MAX_RETRIES
        /\ n_failure[s] = 1

\* C5: when both breakers admit and both probes answer false, each breaker
\* records exactly one failure, the write raises the both-unavailable error
\* and no adapter is invoked.
C5_BothProbesFail ==
    BothProbed("down", "down")
        => /\ Done
           /\ result.kind = "BothUnavailable_ping"
           /\ calls = Zero
           /\ \A s \in Stores :
                /\ n_failure[s] = 1 /\ n_success[s] = 0
                /\ cb[s].failure_count = pre[s].failure_count + 1
                /\ op_outcome[s] = None

C5_Witness ==
    /\ BothProbed("down", "down")
    /\ Done
    /\ result.kind = "BothUnavailable_ping"
    /\ \A s \in Stores : n_failure[s] = 1

\* C6: when both breakers admit and exactly one probe answers true, the
\* unreachable store's failure_count grows by exactly 1 and its adapter is not
\* invoked; the reachable store is invoked (once, if its first attempt
\* succeeds) and the write returns success if it succeeds.
C6_OneProbeFails ==
    \A r \in Stores :
        (/\ BothProbed(IF r = "sql" THEN "up" ELSE "down",
                       IF r = "sql" THEN "down" ELSE "up"))
        => /\ pc \in {"solo", "done"}
           /\ target = r
           /\ calls[Other(r)] = 0
           /\ cb[Other(r)].failure_count = pre[Other(r)].failure_count + 1
           /\ n_failure[Other(r)] = 1 /\ n_success[Other(r)] = 0
           /\ Done =>
                /\ calls[r] >= 1
                /\ attempt_log[1] = "ok" => calls[r] = 1
                /\ Succeeded(r) => result = Returned

C6_Witness ==
    /\ BothProbed("up", "down")
    /\ Done
    /\ result = Returned
    /\ calls = [sql |-> 1, mongo |-> 0]
    /\ cb["mongo"].failure_count = pre["mongo"].failure_count + 1

\* C7: when both breakers admit, both probes answer true and both store
\* operations succeed, the write returns success, each adapter was invoked
\* exactly once and both breakers end CLOSED with failure_count 0.
C7_DualSuccess ==
    (Done /\ BothProbed("up", "up") /\ \A s \in Stores : Succeeded(s))
        => /\ result = Returned
           /\ \A s \in Stores :
                /\ calls[s] = 1
                /\ cb[s].state = CLOSED
                /\ cb[s].failure_count = 0

\* C8: in the parallel path, when one store operation fails (raises or times
\* out) and the other succeeds, the write returns success, the failed store's
\* breaker records a failure and the other store's breaker a success.
C8_PartialSuccess ==
    \A f \in Stores :
        (Done /\ BothProbed("up", "up") /\ FailedOp(f) /\ Succeeded(Other(f)))
            => /\ result = Returned
               /\ n_failure[f] = 1
               /\ n_success[Other(f)] = 1

\* C9: in the parallel path, when both store operations fail, the write raises
\* the both-failed error carrying the two underlying errors, and both breakers
\* record a failure.
C9_BothFailed ==
    (Done /\ BothProbed("up", "up") /\ \A s \in Stores : FailedOp(s))
        => /\ result = Raised("BothFailed", ErrorOf("sql"), ErrorOf("mongo"))
           /\ \A s \in Stores : n_failure[s] = 1

\* C10: in the parallel path, an operation still pending when the deadline
\* elapses is counted as failed with a timeout error and its breaker records
\* a failure; one that succeeded and was collected before the deadline is
\* counted as a success and its breaker records a success; with the primary
\* done in time and the secondary blocked the write returns success.
C10_DeadlineOutcome ==
    (Done /\ at_deadline["sql"] # None)
        => /\ \A s \in Stores :
                /\ at_deadline[s] \in {"queued", "running"}
                     => op_error[s] = "timeout" /\ n_failure[s] = 1
                /\ (at_deadline[s] = "processed" /\ Succeeded(s))
                     => op_error[s] = None /\ n_success[s] = 1
           /\ (Succeeded("sql") /\ at_deadline["sql"] = "processed"
               /\ at_deadline["mongo"] = "running")
                => result = Returned

\* ---- claims about get and list ------------------------------------------------------

IsGet == InCall /\ op.kind = "get"
IsList == InCall /\ op.kind = "list"

\* retry_with_backoff on store s raised (s was consulted and failed).
ReadFailed(s) == op_error[s] # None

\* The error the result carries for store s.
ErrorFor(s) == IF s = "sql" THEN result.sql_error ELSE result.mongo_error

\* C11: get with the primary admitted and returning a task returns that task at
\* once: the secondary is not invoked, its breaker is unchanged, and the primary
\* breaker has recorded a success (CLOSED, failure_count 0).
C11_GetPrimaryHit ==
    (/\ IsGet
     /\ Admitted(pre["sql"], now)
     /\ Succeeded("sql")
     /\ StoreGet(db["sql"], op.id) # None)
        => /\ Done
           /\ result = ReadReturned(StoreGet(db["sql"], op.id))
           /\ calls["mongo"] = 0
           /\ cb["mongo"] = pre["mongo"]
           /\ n_success["sql"] = 1 /\ n_failure["sql"] = 0
           /\ cb["sql"].state = CLOSED
           /\ cb["sql"].failure_count = 0

C11_Witness ==
    /\ IsGet /\ Done
    /\ pre["sql"].failure_count > 0
    /\ Succeeded("sql")
    /\ result = ReadReturned("t")
    /\ StoreGet(db["mongo"], op.id) = None

\* C12: a get whose primary call succeeds with null records a success on the
\* primary breaker and, if the secondary breaker admits, consults the secondary
\* and returns the value the secondary returns (the task or null).
C12_GetPrimaryMiss ==
    (/\ IsGet
     /\ Succeeded("sql")
     /\ StoreGet(db["sql"], op.id) = None)
        => /\ n_success["sql"] = 1 /\ n_failure["sql"] = 0
           /\ cb["sql"].state = CLOSED /\ cb["sql"].failure_count = 0
           /\ Admitted(pre["mongo"], now) =>
                /\ pc \in {"read", "done"}
                /\ target = "mongo"
                /\ Done =>
                     /\ calls["mongo"] >= 1
                     /\ Succeeded("mongo") =>
                          result = ReadReturned(StoreGet(db["mongo"], op.id))

C12_Witness ==
    /\ IsGet /\ Done
    /\ Succeeded("sql") /\ StoreGet(db["sql"], op.id) = None
    /\ Succeeded("mongo")
    /\ result = ReadReturned("t")

\* C13: a successful null from the primary is final: the secondary is not
\* consulted and get returns null, even if the secondary holds the task.
C13_PrimaryNullIsNotFound ==
    (/\ IsGet
     /\ Succeeded("sql")
     /\ StoreGet(db["sql"], op.id) = None)
        => /\ calls["mongo"] = 0
           /\ Done => result = ReadReturned(None)

\* C14, as stated: when every primary attempt of a get raises a retryable
\* error, the primary is invoked 1 + max_retries times, its breaker records
\* one failure, then the secondary is invoked once and its value is returned.
C14_AsStated ==
    (IsGet /\ Done /\ op_error["sql"] \in RETRYABLE_EXCEPTIONS)
        => /\ calls["sql"] = 1 + _RETRY_MAX_RETRIES
           /\ n_failure["sql"] = 1
           /\ calls["mongo"] = 1
           /\ result = ReadReturned(StoreGet(db["mongo"], op.id))

\* C14, amended: ... then, if the secondary breaker admits, the secondary is
\* invoked, once if its first attempt succeeds, and the value it returns is the
\* result; if the breaker denies, the secondary is not invoked and get
\* returns null.
C14_GetPrimaryExhausted ==
    (IsGet /\ op_error["sql"] \in RETRYABLE_EXCEPTIONS)
        => /\ calls["sql"] = 1 + _RETRY_MAX_RETRIES
           /\ n_failure["sql"] = 1 /\ n_success["sql"] = 0
           /\ cb["sql"].failure_count = pre["sql"].failure_count + 1
           /\ IF Admitted(pre["mongo"], now)
              THEN /\ pc \in {"read", "done"}
                   /\ target = "mongo"
                   /\ Done =>
                        /\ calls["mongo"] >= 1
                        /\ attempt_log[1] = "ok" => calls["mongo"] = 1
                        /\ Succeeded("mongo") =>
                             result = ReadReturned(StoreGet(db["mongo"], op.id))
              ELSE /\ Done
                   /\ calls["mongo"] = 0
                   /\ result = ReadReturned(None)

C14_Witness ==
    /\ IsGet /\ Done
    /\ op_error["sql"] \in RETRYABLE_EXCEPTIONS
    /\ calls = [sql |-> 1 + _RETRY_MAX_RETRIES, mongo |-> 1]
    /\ result = ReadReturned("t")

\* C15: get never raises: it returns null when both breakers deny and when
\* every store it consulted failed; a failed secondary call has recorded a
\* failure on the secondary breaker by then.
C15_GetNeverRaises ==
    (IsGet /\ Done)
        => /\ result.kind = "ok"
           /\ (\A s \in Stores : ~Admitted(pre[s], now))
                => result = ReadReturned(None) /\ calls = Zero
           /\ (\A s \in Stores : calls[s] > 0 => ReadFailed(s))
                => result = ReadReturned(None)
           /\ ReadFailed("mongo")
                => /\ n_failure["mongo"] = 1
                   /\ cb["mongo"].failure_count = pre["mongo"].failure_count + 1
                   /\ result = ReadReturned(None)

C15_Witness ==
    /\ IsGet /\ Done
    /\ ReadFailed("sql") /\ ReadFailed("mongo")
    /\ n_failure = [sql |-> 1, mongo |-> 1]
    /\ result = ReadReturned(None)

\* C16: get returns null only when the task is absent, never when the lookup
\* failed (a store error, or no store admitted).
C16_NullMeansAbsent ==
    (IsGet /\ Done /\ result = ReadReturned(None))
        => /\ \A s \in Stores : ~ReadFailed(s)
           /\ \E s \in Stores : Succeeded(s)
           /\ \A s \in Stores : StoreGet(db[s], op.id) = None

\* C17: list with the primary admitted and its call succeeding returns the
\* primary's list at once, even when empty: the secondary is not invoked and
\* its breaker is unchanged.
C17_ListPrimaryFirst ==
    (IsList /\ Admitted(pre["sql"], now) /\ Succeeded("sql"))
        => /\ Done
           /\ result = ReadReturned(StoreList(db["sql"]))
           /\ calls["mongo"] = 0
           /\ cb["mongo"] = pre["mongo"]

C17_Witness ==
    /\ IsList /\ Done
    /\ Succeeded("sql")
    /\ result = ReadReturned({})
    /\ StoreList(db["mongo"]) # {}

\* C18: list raises the both-failed error only when both stores were invoked
\* and both raised, and the error carries both underlying errors.
C18_ListBothFailed ==
    (IsList /\ Done /\ result.kind = "BothFailed")
        => \A s \in Stores :
              /\ calls[s] >= 1
              /\ ReadFailed(s)
              /\ ErrorFor(s) = op_error[s]

\* C19: the both-unavailable error is raised only when both breakers denied
\* admission or both probes failed; list does not raise it when the primary
\* breaker admitted the call and the primary was invoked.
C19_BothUnavailableOnlyWhenUnreachable ==
    (Done /\ result.kind \in {"BothUnavailable_breakers", "BothUnavailable_ping"})
        => /\ \/ \A s \in Stores : ~Admitted(pre[s], now)
              \/ probed /\ \A s \in Stores : ping_ok[s] = "down"
           /\ calls["sql"] = 0

\* C20: a logic (non-retryable) error raised by a store is not retried and
\* reaches the caller.
C20_LogicErrorsPropagate ==
    \A s \in Stores :
        (Done /\ op_outcome[s] \in StoreErrors \ RETRYABLE_EXCEPTIONS)
            => /\ result.kind \notin {"ok", "none"}
               /\ ErrorFor(s) = op_outcome[s]

\* ---- claims about the breakers in get and list, the retry policy, the probe -------

IsRead == InCall /\ op.kind \in {"get", "list"}

\* The read is in, or has ended in, a call of retry_with_backoff on `target`.
InRetry == IsRead /\ target \in Stores

\* C21: a get or list started while the primary breaker is OPEN and not yet
\* recoverable never invokes the primary and goes to the secondary; once the
\* primary breaker has counted failure_threshold consecutive failed calls, a
\* read started before the recovery timeout is such a call.
C21_OpenPrimarySkipped ==
    IsRead =>
        /\ ~Admitted(pre["sql"], now) =>
              /\ calls["sql"] = 0
              /\ op_outcome["sql"] = None
              /\ cb["sql"] = pre["sql"]
              /\ Admitted(pre["mongo"], now) =>
                    /\ pc \in {"read", "done"}
                    /\ target = "mongo"
                    /\ Done => calls["mongo"] >= 1
        /\ (/\ pre["sql"].failure_count >= _CIRCUIT_FAILURE_THRESHOLD
            /\ pre["sql"].last_failure_time # <<>>
            /\ now - pre["sql"].last_failure_time[1] < _CIRCUIT_RECOVERY_TIMEOUT)
              => ~Admitted(pre["sql"], now) /\ calls["sql"] = 0

C21_Witness ==
    /\ IsGet /\ Done
    /\ pre["sql"].state = OPEN
    /\ pre["sql"].failure_count = _CIRCUIT_FAILURE_THRESHOLD
    /\ calls = [sql |-> 0, mongo |-> 1]
    /\ result = ReadReturned("t")

\* C22: the get that follows the opening of the primary breaker and the
\* recovery timeout calls the primary exactly once; a successful trial leaves
\* the breaker CLOSED with failure_count 0, a failed one OPEN.
C22_TrialCallsPrimaryOnce ==
    (/\ IsGet /\ Done
     /\ pre["sql"].state = OPEN
     /\ Admitted(pre["sql"], now))
        => /\ calls["sql"] = 1
           /\ Succeeded("sql")
                => cb["sql"].state = CLOSED /\ cb["sql"].failure_count = 0
           /\ ReadFailed("sql") => cb["sql"].state = OPEN

\* C27: retry_with_backoff invokes the operation once when the first attempt
\* succeeds, stops at the first successful attempt and returns its value, and
\* after 1 + max_retries retryable errors raises the error of the last attempt.
C27_RetryAttempts ==
    InRetry =>
        /\ calls[target] = Len(attempt_log)
        /\ Len(attempt_log) <= 1 + _RETRY_MAX_RETRIES
        /\ \A i \in 1..(Len(attempt_log) - 1) : attempt_log[i] \in RETRYABLE_EXCEPTIONS
        /\ pc = "read" => \A i \in 1..Len(attempt_log) : attempt_log[i] \in RETRYABLE_EXCEPTIONS
        /\ (Done /\ calls[target] > 0) =>
              LET last == attempt_log[Len(attempt_log)]
              IN  /\ attempt_log[1] = "ok" => calls[target] = 1
                  /\ last = "ok" => result = ReadReturned(ReadValue(db[target], op))
                  /\ last \in RETRYABLE_EXCEPTIONS
                       => /\ calls[target] = 1 + _RETRY_MAX_RETRIES
                          /\ op_error[target] = last
        /\ \A s \in Stores :
              /\ op_error[s] \in RETRYABLE_EXCEPTIONS => calls[s] = 1 + _RETRY_MAX_RETRIES
              /\ ReadFailed(s) => op_error[s] = op_outcome[s]

C27_Witness ==
    /\ InRetry /\ Done
    /\ attempt_log = <<"transient", "transient", "transient">>
    /\ calls[target] = 1 + _RETRY_MAX_RETRIES
    /\ op_error[target] = "transient"

\* C28: a non-retryable error ends retry_with_backoff at the attempt where it
\* occurs, also after retryable errors: no sleep follows it and the operation
\* is not invoked again.
C28_NonRetryableEndsRetry ==
    InRetry =>
        \A i \in 1..Len(attempt_log) :
            attempt_log[i] \notin RETRYABLE_EXCEPTIONS \cup {"ok"}
                => /\ i = Len(attempt_log)
                   /\ Done
                   /\ calls[target] = i
                   /\ Len(slept) = i - 1
                   /\ op_error[target] = attempt_log[i]

C28_Witness ==
    /\ InRetry /\ Done
    /\ attempt_log = <<"transient", "logic">>
    /\ calls[target] = 2
    /\ Len(slept) = 1

RECURSIVE SeqSum(_)
SeqSum(q) == IF q = <<>> THEN 0 ELSE q[1] + SeqSum(Tail(q))

\* C29: the sleep after the k-th failed attempt (k <= max_retries) is
\* base_delay * 2^(k-1), no sleep follows the final attempt, and one call
\* sleeps at most base_delay * (2^max_retries - 1) in total.
C29_BackoffDelays ==
    InRetry =>
        /\ \A k \in 1..Len(slept) : slept[k] = _RETRY_BASE_DELAY * 2 ^ (k - 1)
        /\ Len(slept) <= _RETRY_MAX_RETRIES
        /\ pc = "read" => Len(slept) = Len(attempt_log)
        /\ (Done /\ calls[target] > 0) => Len(slept) = Len(attempt_log) - 1
        /\ SeqSum(slept) <= _RETRY_BASE_DELAY * (2 ^ _RETRY_MAX_RETRIES - 1)

C29_Witness ==
    /\ InRetry /\ Done
    /\ Len(attempt_log) = 1 + _RETRY_MAX_RETRIES
    /\ slept = <<500, 1000>>

\* C30: the probe of both stores never throws: it always returns a pair of
\* booleans, also when the pool has no free worker for the probes.
C30_ProbeNeverThrows ==
    (probed /\ pc \notin {"ping_sql", "ping_mongo"})
        => /\ result.kind # "PingTimeout"
           /\ \A s \in Stores : ping_ok[s] \in ProbeResults

\* ---- claims about the breaker alone ---------------------------------------------------

\* Seconds since the last failure breaker b recorded.
Elapsed(b) == now - b.last_failure_time[1]

\* C23: with failure_threshold N, a breaker that starts CLOSED with
\* failure_count 0 is still CLOSED and admits after fewer than N consecutive
\* record_failure calls, and is OPEN and denies after the N-th; a
\* record_success restarts the count from 0.
C23_OpensAtThreshold ==
    \A s \in Stores :
        /\ n_failure[s] < _CIRCUIT_FAILURE_THRESHOLD
             => /\ cb[s].state = CLOSED
                /\ cb[s].failure_count = n_failure[s]
                /\ allow_request(cb[s], now)
        /\ n_failure[s] = _CIRCUIT_FAILURE_THRESHOLD
             => /\ cb[s].state \in {OPEN, HALF_OPEN}
                /\ cb[s].failure_count = n_failure[s]
                /\ Elapsed(cb[s]) < _CIRCUIT_RECOVERY_TIMEOUT
                     => cb[s].state = OPEN /\ ~allow_request(cb[s], now)

C23_Witness ==
    \E s \in Stores :
        /\ n_failure[s] = _CIRCUIT_FAILURE_THRESHOLD
        /\ pre[s].state = CLOSED
        /\ pre[s].failure_count = _CIRCUIT_FAILURE_THRESHOLD - 1
        /\ cb[s].state = OPEN
        /\ cb[Other(s)].state = CLOSED
        /\ cb[Other(s)].failure_count = _CIRCUIT_FAILURE_THRESHOLD - 1

\* C24: observing an OPEN breaker (state, allow_request) when the recovery
\* timeout has elapsed since the last failure makes it HALF_OPEN and admits;
\* observing it earlier answers OPEN, denies and changes nothing.
C24_LazyHalfOpen ==
    [][\A s \in Stores :
          (cb[s].state = OPEN /\ (CallState(s) \/ CallAllowRequest(s)))
            => IF Elapsed(cb[s]) >= _CIRCUIT_RECOVERY_TIMEOUT
               THEN /\ cb'[s] = [cb[s] EXCEPT !.state = HALF_OPEN]
                    /\ CallAllowRequest(s) => allowed'[s]
               ELSE /\ cb'[s] = cb[s]
                    /\ CallAllowRequest(s) => ~allowed'[s]]_vars

C24_Witness ==
    \E s \in Stores :
        /\ pre[s].state = OPEN
        /\ cb[s].state = HALF_OPEN
        /\ Elapsed(cb[s]) = _CIRCUIT_RECOVERY_TIMEOUT
        /\ allowed[s]

\* C25: in HALF_OPEN, record_success closes the breaker and record_failure
\* opens it, whatever failure_count is.
C25_HalfOpenOutcome ==
    [][\A s \in Stores :
          cb[s].state = HALF_OPEN
            => /\ CallRecordSuccess(s) => cb'[s].state = CLOSED
               /\ CallRecordFailure(s) => cb'[s].state = OPEN]_vars

C25_Witness ==
    \E s \in Stores :
        /\ pre[s].state = HALF_OPEN
        /\ cb[s].state = OPEN
        /\ cb[s].failure_count = pre[s].failure_count + 1
        /\ pre[Other(s)].state = HALF_OPEN
        /\ cb[Other(s)].state = CLOSED

\* C26: record_success from any state leaves the breaker CLOSED with
\* failure_count 0 and no last failure time, so the next allow_request admits.
C26_SuccessResets ==
    [][\A s \in Stores :
          CallRecordSuccess(s)
            => /\ cb'[s].state = CLOSED
               /\ cb'[s].failure_count = 0
               /\ cb'[s].last_failure_time = <<>>
               /\ allow_request(cb'[s], now')]_vars

C26_Witness ==
    \E s \in Stores :
        /\ pre[s].state = OPEN
        /\ pre[s].failure_count >= _CIRCUIT_FAILURE_THRESHOLD
        /\ cb[s] = CircuitBreaker
        /\ n_failure[s] = 0

\* ---- claims about the repository behind its port ---------------------------------------

\* C31: after eliminar(id) has returned without raising, a get(id) with no save
\* of that id in between returns null.
C31_GetAfterEliminar ==
    (Done /\ IsGet /\ op.id \in eliminated) => result = ReadReturned(None)

\* C32: get and list never run the health probe: a read submits nothing to the
\* pool and holds no probe answer, whatever the breakers and the stores do.
C32_ReadsNeverProbe ==
    IsRead => /\ ~probed
              /\ fut = NoFut
              /\ queue = <<>>
              /\ ping_ok = [s \in Stores |-> None]

\* A list that both breakers admitted (where a write would have probed) and
\* that found both stores failing.
C32_Witness ==
    /\ Done
    /\ IsList
    /\ \A s \in Stores : allowed[s] /\ calls[s] >= 1
    /\ result.kind = "BothFailed"
    /\ ~probed

\* C38: in the parallel path each of the two store operations leads to exactly
\* one update of its own breaker before the write returns, a record_success
\* only for an operation that succeeded, whatever the order of the two
\* completions and the expiry of the deadline.
C38_OneBreakerUpdateEach ==
    (Done /\ BothProbed("up", "up"))
        => \A s \in Stores :
              /\ n_success[s] + n_failure[s] = 1
              /\ n_success[s] = 1 => Succeeded(s)

\* The write in progress directly follows failure_threshold writes in a row
\* whose probes found only the primary, and started before the recovery
\* timeout of the secondary's breaker had elapsed.
FollowingWrite ==
    /\ InCall
    /\ op.kind \in {"save", "eliminar"}
    /\ streak >= _CIRCUIT_FAILURE_THRESHOLD
    /\ pre["mongo"].last_failure_time # <<>>
    /\ now - pre["mongo"].last_failure_time[1] < _CIRCUIT_RECOVERY_TIMEOUT

\* The secondary's breaker is OPEN once failure_threshold writes in a row had
\* both breakers admit and the probes find only the primary.
OpenAfterStreak ==
    (pc = "idle" /\ streak >= _CIRCUIT_FAILURE_THRESHOLD) => cb["mongo"].state = OPEN

\* C39 as stated: ... and the write that follows within the recovery timeout
\* runs no probe, makes no secondary call and executes on the primary.
C39_AsStated ==
    /\ OpenAfterStreak
    /\ FollowingWrite
         => /\ ~probed
            /\ calls["mongo"] = 0
            /\ Done => calls["sql"] >= 1

\* C39: ... and the write that follows within the recovery timeout runs no
\* probe and makes no secondary call; it executes on the primary alone if the
\* primary's breaker admits it, and fails fast without any store call if not.
C39_SecondaryOpensThenSkipped ==
    /\ OpenAfterStreak
    /\ FollowingWrite
         => /\ ~probed
            /\ calls["mongo"] = 0
            /\ Done => IF allowed["sql"]
                       THEN /\ calls["sql"] >= 1
                            /\ result.kind \in {"ok", "StoreError"}
                       ELSE /\ calls["sql"] = 0
                            /\ result = Raised("BothUnavailable_breakers", None, None)

\* The following write has run on the primary alone and returned.
C39_Witness ==
    /\ Done
    /\ FollowingWrite
    /\ pre["mongo"].state = OPEN
    /\ allowed = [sql |-> TRUE, mongo |-> FALSE]
    /\ calls = [sql |-> 1, mongo |-> 0]
    /\ result = Returned

\* ---- claims about the breaker's states ---------------------------------------------------

\* C33: a CLOSED breaker has failure_count < failure_threshold.
C33_ClosedBelowThreshold ==
    \A s \in Stores :
        cb[s].state = CLOSED => cb[s].failure_count < _CIRCUIT_FAILURE_THRESHOLD

\* A breaker still CLOSED after the last failure below the threshold.
C33_Witness ==
    \E s \in Stores :
        /\ pre[s].state = CLOSED
        /\ pre[s].failure_count = _CIRCUIT_FAILURE_THRESHOLD - 2
        /\ cb[s].state = CLOSED
        /\ cb[s].failure_count = _CIRCUIT_FAILURE_THRESHOLD - 1

\* C34 as stated: a CLOSED breaker has no last failure time, also after a
\* record_failure that leaves it CLOSED.
C34_AsStated ==
    \A s \in Stores : cb[s].state = CLOSED => cb[s].last_failure_time = <<>>

\* C34: a CLOSED breaker has no last failure time exactly when its
\* failure_count is 0; a record_failure that leaves it CLOSED notes its time.
C34_ClosedTimeIffFailures ==
    \A s \in Stores :
        cb[s].state = CLOSED
            => (cb[s].last_failure_time = <<>> <=> cb[s].failure_count = 0)

\* A breaker left CLOSED by a record_failure, with the time of that failure.
C34_Witness ==
    \E s \in Stores :
        /\ pre[s] = CircuitBreaker
        /\ cb[s] = [state |-> CLOSED, failure_count |-> 1, last_failure_time |-> <<now>>]
        /\ now > 0

\* C35: an OPEN breaker has a last failure time, so that observing it once the
\* recovery timeout has elapsed since that time answers HALF_OPEN.
C35_OpenHasFailureTime ==
    \A s \in Stores :
        cb[s].state = OPEN
            => /\ cb[s].last_failure_time # <<>>
               /\ Elapsed(cb[s]) >= _CIRCUIT_RECOVERY_TIMEOUT
                    => state(cb[s], now).state = HALF_OPEN

\* An OPEN breaker whose recovery timeout has elapsed, not yet observed.
C35_Witness ==
    \E s \in Stores :
        /\ cb[s].state = OPEN
        /\ cb[s].last_failure_time # <<>>
        /\ Elapsed(cb[s]) > _CIRCUIT_RECOVERY_TIMEOUT
        /\ state(cb[s], now).state = HALF_OPEN

\* C40: an OPEN or HALF_OPEN breaker has failure_count >= failure_threshold.
C40_OpenAtOrAboveThreshold ==
    \A s \in Stores :
        cb[s].state \in {OPEN, HALF_OPEN}
            => cb[s].failure_count >= _CIRCUIT_FAILURE_THRESHOLD

\* A breaker opened again by a failed trial, and the other one HALF_OPEN.
C40_Witness ==
    \E s \in Stores :
        /\ pre[s].state = HALF_OPEN
        /\ cb[s].state = OPEN
        /\ cb[s].failure_count = _CIRCUIT_FAILURE_THRESHOLD + 1
        /\ cb[Other(s)].state = HALF_OPEN
        /\ cb[Other(s)].failure_count = _CIRCUIT_FAILURE_THRESHOLD

\* ---- claims about concurrent callers --------------------------------------------------------

\* The threads calling store s that a HALF_OPEN breaker admitted.
Trials(s) ==
    {t \in Threads : /\ callers[t].pc = "calling"
                     /\ callers[t].store = s
                     /\ callers[t].seen = HALF_OPEN}

\* C36: while a breaker is HALF_OPEN, at most one caller has been admitted
\* since it became HALF_OPEN and before a record_success or record_failure
\* decided its next state.
C36_SingleTrial ==
    \A s \in Stores : cb[s].state = HALF_OPEN => Cardinality(Trials(s)) <= 1

\* The listed transitions of breaker s, as steps.
ClosedToOpen(s) ==
    /\ cb[s].state = CLOSED
    /\ cb'[s].state = OPEN
    /\ cb'[s].failure_count = cb[s].failure_count + 1
    /\ cb'[s].failure_count = _CIRCUIT_FAILURE_THRESHOLD

OpenToHalfOpen(s) ==
    /\ cb[s].state = OPEN
    /\ Elapsed(cb[s]) >= _CIRCUIT_RECOVERY_TIMEOUT
    /\ cb'[s] = [cb[s] EXCEPT !.state = HALF_OPEN]

HalfOpenToClosed(s) ==
    /\ cb[s].state = HALF_OPEN
    /\ cb'[s] = [state |-> CLOSED, failure_count |-> 0, last_failure_time |-> <<>>]

HalfOpenToOpen(s) ==
    /\ cb[s].state = HALF_OPEN
    /\ cb'[s].state = OPEN
    /\ cb'[s].failure_count = cb[s].failure_count + 1

\* The transition the list leaves out: a record_success on an OPEN breaker.
OpenToClosed(s) ==
    /\ cb[s].state = OPEN
    /\ cb'[s] = [state |-> CLOSED, failure_count |-> 0, last_failure_time |-> <<>>]

\* C37 as stated: every change of a breaker's state, under any interleaving
\* of concurrent gets, is one of the four listed transitions; an OPEN breaker
\* never goes straight to CLOSED.
C37_AsStated ==
    [][\A s \in Stores :
          cb'[s].state # cb[s].state
            => \/ ClosedToOpen(s)
               \/ OpenToHalfOpen(s)
               \/ HalfOpenToClosed(s)
               \/ HalfOpenToOpen(s)]_vars

\* C37: every change of a breaker's state, under any interleaving of
\* concurrent gets, is one of the four listed transitions or OPEN to CLOSED by
\* the record_success of a request admitted before the breaker opened.
C37_ListedTransitionsOrLateSuccess ==
    [][\A s \in Stores :
          cb'[s].state # cb[s].state
            => \/ ClosedToOpen(s)
               \/ OpenToHalfOpen(s)
               \/ HalfOpenToClosed(s)
               \/ HalfOpenToOpen(s)
               \/ /\ OpenToClosed(s)
                  /\ \E t \in Threads :
                        /\ callers[t].pc = "calling"
                        /\ callers[t].store = s
                        /\ callers[t].seen \in {CLOSED, HALF_OPEN}
                        /\ callers'[t] # callers[t]]_vars

\* An OPEN breaker has just been closed by a late success, while another
\* thread is calling the other store.
C37_Witness ==
    \E s \in Stores :
        /\ pre[s].state = OPEN
        /\ pre[s].failure_count >= _CIRCUIT_FAILURE_THRESHOLD
        /\ cb[s] = CircuitBreaker
        /\ \E t \in Threads : callers[t].pc = "calling" /\ callers[t].store = Other(s)

====
